---------------------------- MODULE Spec2Model ----------------------------
(***************************************************************************)
(* Admin authentication and account lockout of the portfolio backend.      *)
(*                                                                         *)
(* models/Admin.js (schema, isLocked, incLoginAttempts,                    *)
(* resetLoginAttempts, updateLastLogin, the pre-save hash hook) and        *)
(* routes/admin.js (POST /login, PUT /change-password,                     *)
(* POST /forgot-password, PUT /reset-password/:token, GET /, POST /,       *)
(* PUT /:id, DELETE /:id), middleware/auth.js (protect, authorize) and     *)
(* utils/emailService.js (sendPasswordResetEmail).                         *)
(*                                                                         *)
(* A request handler is an async function: it runs without interruption    *)
(* between two awaits, and other requests and the clock advance at each    *)
(* await.  Every await of a handler is one step of the model.              *)
(* Time is counted in hours (the lock lasts 2 * 60 * 60 * 1000 ms).        *)
(***************************************************************************)
EXTENDS Integers, Sequences, FiniteSets, TLC

\* ---------------------------------------------------------------- bounds
MaxTime == 3          \* the clock stops advancing here
MaxReq == 2           \* requests of a kind that can be in flight together
MaxTokens == 2        \* distinct password reset tokens
MaxContacts == 2      \* contact submissions that the collection holds
MaxItems == 4         \* entries that an in-memory array grows to

\* ------------------------------------------------------ program constants
LockThreshold == 5    \* this.loginAttempts + 1 >= 5
LockTime == 2         \* Date.now() + 2 * 60 * 60 * 1000, in hours
MinPasswordLen == 6   \* body('password').isLength({ min: 6 })
ResetTime == 1        \* Date.now() + 60 * 60 * 1000, in hours

AdminEmail == "admin@example.com"     \* process.env.ADMIN_EMAIL default
AdminPassword == "admin123"           \* process.env.ADMIN_PASSWORD default

Emails == {AdminEmail, "nobody@example.com", "not-an-email"}
Passwords == {AdminPassword, "wrong456", "short"}
AdminIds == {1, 2}
Reqs == 1..MaxReq

NoDate == -1          \* a Date field that is not set
NoValue == -1         \* a $set that is not part of an update document
NoToken == [id |-> 0, role |-> ""]
NoAdmin == [_id |-> 0]            \* findOne() found nothing (null)
NoRes == [status |-> 0, error |-> "", token |-> NoToken]
NoDigest == [sha256 |-> 0]        \* a passwordResetToken that is not set

Slots == 1..MaxReq + 1            \* a requestReset beside MaxReq other requests
ContactIds == 1..MaxContacts
NoContact == [_id |-> 0]          \* Contact.findById() found nothing (null)
\* no site request was answered yet
NoHandler ==
    [router |-> "", method |-> "", path |-> <<>>, line |-> 0, status |-> 0]

\* MONGODB_URI: not set, as in the setup guide, or another deployment
NoUri == ""
DocumentedUri == "mongodb://localhost:27017/portfolio"
CustomUri == "mongodb://db.example.com:27017/portfolio"
Uris == {NoUri, DocumentedUri, CustomUri}

\* let achievements = [...]: id, title and featured of the sample data
SampleAchievements ==
    << [id |-> 1, title |-> "Hackathon Runner-up", featured |-> TRUE],
       [id |-> 2, title |-> "DSA Excellence", featured |-> TRUE],
       [id |-> 3, title |-> "College Rank", featured |-> FALSE] >>

\* let skills = [...]: id and category of the sample data
SampleSkills ==
    << [id |-> 1, category |-> "Programming Languages"],
       [id |-> 2, category |-> "Databases"],
       [id |-> 3, category |-> "Computer Fundamentals"],
       [id |-> 4, category |-> "Development Tools"] >>

VARIABLES
    now,       \* Date.now()
    admins,    \* the admins collection: _id -> stored document or NoAdmin
    reqs,      \* the login requests in flight: position, inputs, loaded document
    sent,      \* the response most recently sent
    fails,     \* observer: wrong-password answers since the last success
    issued,    \* the payloads of the tokens signed so far
    calls,     \* the other requests in flight: position, inputs, documents
    server,    \* the server process: MONGODB_URI, the connection, listening
    contacts,  \* the contacts collection: _id -> stored document or NoContact
    achievements,  \* let achievements of routes/achievements.js
    skills,    \* let skills of routes/skills.js
    handled    \* the route handler that answered the last site request

vars ==
    <<now, admins, reqs, sent, fails, issued, calls,
      server, contacts, achievements, skills, handled>>

\* the state of the site outside the admin accounts
site == <<server, contacts, achievements, skills, handled>>

\* ------------------------------------------------------- password hashing
\* A value of the password field names a plaintext and how many times it
\* was run through bcrypt.hash: a plaintext has 0 rounds, its hash 1, and
\* hashing a hash gives yet another value.
Plain(p) == [plain |-> p, rounds |-> 0]

\* bcrypt.hash(value, salt)
Hash(v) == [v EXCEPT !.rounds = @ + 1]

\* AdminSchema.methods.comparePassword: bcrypt.compare(candidate, hash)
comparePassword(candidate, stored) == stored = Hash(Plain(candidate))

\* ---------------------------------------------------------- input checks
\* body('email').isEmail()
isEmail(e) == e \in {AdminEmail, "nobody@example.com"}

\* a password check that lets every length through
isValidPassword_any(p) == TRUE

\* body('password').isLength({ min: 6 })
isValidPassword(p) == Len(p) >= MinPasswordLen

\* ------------------------------------------------------- Admin documents
\* Admin.create with the schema defaults (createDefaultAdmin)
NewAdmin(id, email, password, role) ==
    [_id |-> id, email |-> email, password |-> Hash(Plain(password)),
     role |-> role, isActive |-> TRUE, loginAttempts |-> 0,
     lockUntil |-> NoDate, lastLogin |-> NoDate,
     passwordResetToken |-> NoDigest, passwordResetExpires |-> NoDate]

\* Admin.findOne({ email })
findOne(email) ==
    IF \E id \in AdminIds : admins[id] # NoAdmin /\ admins[id].email = email
    THEN admins[CHOOSE id \in AdminIds :
                    admins[id] # NoAdmin /\ admins[id].email = email]
    ELSE NoAdmin

\* isLocked with the comparison turned round
isLocked_inverted(doc, t) == doc.lockUntil # NoDate /\ doc.lockUntil < t

\* isLocked that never looks at the clock
isLocked_noExpiry(doc, t) == doc.lockUntil # NoDate

\* AdminSchema.methods.isLocked
isLocked(doc, t) == doc.lockUntil # NoDate /\ doc.lockUntil > t

\* An update document: $inc and $set of loginAttempts, $set of lockUntil,
\* and the fields under $unset
NoUpdate ==
    [incAttempts |-> 0, setAttempts |-> NoValue, setLockUntil |-> NoDate,
     unset |-> {}]

\* incLoginAttempts that compares the count before the increment
incLoginAttempts_offByOne(doc, t) ==
    IF doc.lockUntil # NoDate /\ doc.lockUntil < t
    THEN [NoUpdate EXCEPT !.unset = {"lockUntil"}, !.setAttempts = 1]
    ELSE IF doc.loginAttempts >= LockThreshold /\ ~isLocked(doc, t)
         THEN [NoUpdate EXCEPT !.incAttempts = 1,
                               !.setLockUntil = t + LockTime]
         ELSE [NoUpdate EXCEPT !.incAttempts = 1]

\* incLoginAttempts without the restart of an expired lock
incLoginAttempts_noRestart(doc, t) ==
    IF doc.loginAttempts + 1 >= LockThreshold /\ ~isLocked(doc, t)
    THEN [NoUpdate EXCEPT !.incAttempts = 1, !.setLockUntil = t + LockTime]
    ELSE [NoUpdate EXCEPT !.incAttempts = 1]

\* AdminSchema.methods.incLoginAttempts: the update document it builds from
\* the loaded document at time t
incLoginAttempts(doc, t) ==
    IF doc.lockUntil # NoDate /\ doc.lockUntil < t
    THEN [NoUpdate EXCEPT !.unset = {"lockUntil"}, !.setAttempts = 1]
    ELSE IF doc.loginAttempts + 1 >= LockThreshold /\ ~isLocked(doc, t)
         THEN [NoUpdate EXCEPT !.incAttempts = 1,
                               !.setLockUntil = t + LockTime]
         ELSE [NoUpdate EXCEPT !.incAttempts = 1]

\* resetLoginAttempts that leaves the lock in place
resetLoginAttempts_keepLock == [NoUpdate EXCEPT !.unset = {"loginAttempts"}]

\* AdminSchema.methods.resetLoginAttempts: its update document
resetLoginAttempts ==
    [NoUpdate EXCEPT !.unset = {"loginAttempts", "lockUntil"}]

\* The store applying an update document to the stored document, in one
\* step.  A field removed by $unset reads as its schema default
\* (loginAttempts 0, lockUntil not set); $inc adds to the stored value.
updateOne(stored, op) ==
    [stored EXCEPT
        !.loginAttempts = IF "loginAttempts" \in op.unset THEN 0
                          ELSE IF op.setAttempts # NoValue THEN op.setAttempts
                          ELSE @ + op.incAttempts,
        !.lockUntil = IF "lockUntil" \in op.unset THEN NoDate
                      ELSE IF op.setLockUntil # NoDate THEN op.setLockUntil
                      ELSE @]

\* document.updateOne(op): filter { _id }, nothing happens when it is gone
storeUpdate(id, op) ==
    IF admins[id] = NoAdmin THEN admins
    ELSE [admins EXCEPT ![id] = updateOne(@, op)]

\* AdminSchema.methods.generateAuthToken: payload { id, role }
generateAuthToken(doc) == [id |-> doc._id, role |-> doc.role]

\* ------------------------------------------------------------- responses
ResValidation ==
    [status |-> 400, error |-> "Validation failed", token |-> NoToken]
ResInvalid ==
    [status |-> 401, error |-> "Invalid credentials", token |-> NoToken]
ResLocked ==
    [status |-> 423, error |-> "Account is locked", token |-> NoToken]
ResInactive ==
    [status |-> 401, error |-> "Account is deactivated", token |-> NoToken]
ResSuccess(doc) ==
    [status |-> 200, error |-> "", token |-> generateAuthToken(doc)]

IdleReq ==
    [pc |-> "idle", email |-> "", password |-> "", doc |-> NoAdmin,
     op |-> NoUpdate]

\* a request of another route: its position, what it carries (the bearer
\* token, the body, the URL parameters), req.admin as protect set it, and
\* the document its handler loaded
IdleCall ==
    [pc |-> "idle", route |-> "", bearer |-> NoToken, admin |-> NoAdmin,
     email |-> "", token |-> 0, current |-> "", password |-> "",
     target |-> 0, role |-> "", smtp |-> "", doc |-> NoAdmin]

\* ------------------------------------------------------------------ Init
\* the server has started and createDefaultAdmin has created the admin
Init ==
    /\ now = 0
    /\ admins = [id \in AdminIds |->
                    IF id = 1
                    THEN NewAdmin(id, AdminEmail, AdminPassword, "super-admin")
                    ELSE NoAdmin]
    /\ reqs = [r \in Reqs |-> IdleReq]
    /\ sent = NoRes
    /\ fails = 0
    /\ issued = {}
    /\ calls = [c \in Slots |-> IdleCall]
    /\ server = [uri |-> CustomUri, db |-> "connected", listening |-> TRUE]
    /\ contacts = [id \in ContactIds |-> NoContact]
    /\ achievements = SampleAchievements
    /\ skills = SampleSkills
    /\ handled = NoHandler

\* --------------------------------------------------- POST /api/admin/login
\* the request arrives; validationResult; Admin.findOne is issued
LoginStart(r, email, password) ==
    /\ reqs[r].pc = "idle"
    /\ IF isEmail(email) /\ isValidPassword(password)
       THEN /\ reqs' = [reqs EXCEPT ![r] = [IdleReq EXCEPT !.pc = "find",
                                  !.email = email, !.password = password]]
            /\ sent' = sent
       ELSE /\ reqs' = reqs
            /\ sent' = ResValidation
    /\ UNCHANGED <<now, admins, fails, issued, calls, site>>

\* the login handler checking isActive before the lock
LoginFind_activeFirst(r) ==
    /\ reqs[r].pc = "find"
    /\ LET doc == findOne(reqs[r].email) IN
       IF doc = NoAdmin
       THEN reqs' = [reqs EXCEPT ![r] = IdleReq] /\ sent' = ResInvalid
       ELSE IF ~doc.isActive
       THEN reqs' = [reqs EXCEPT ![r] = IdleReq] /\ sent' = ResInactive
       ELSE IF isLocked(doc, now)
       THEN reqs' = [reqs EXCEPT ![r] = IdleReq] /\ sent' = ResLocked
       ELSE /\ reqs' = [reqs EXCEPT ![r].pc = "compare", ![r].doc = doc]
            /\ sent' = sent
    /\ UNCHANGED <<now, admins, fails, issued, calls, site>>

\* the login handler answering an unknown email the way forgot-password does
LoginFind_notFound(r) ==
    /\ reqs[r].pc = "find"
    /\ LET doc == findOne(reqs[r].email) IN
       IF doc = NoAdmin
       THEN /\ reqs' = [reqs EXCEPT ![r] = IdleReq]
            /\ sent' = [status |-> 404, error |-> "No admin found with that email",
                        token |-> NoToken]
       ELSE IF isLocked(doc, now)
       THEN reqs' = [reqs EXCEPT ![r] = IdleReq] /\ sent' = ResLocked
       ELSE IF ~doc.isActive
       THEN reqs' = [reqs EXCEPT ![r] = IdleReq] /\ sent' = ResInactive
       ELSE /\ reqs' = [reqs EXCEPT ![r].pc = "compare", ![r].doc = doc]
            /\ sent' = sent
    /\ UNCHANGED <<now, admins, fails, issued, calls, site>>

\* the login handler without the isActive check
LoginFind_noActiveCheck(r) ==
    /\ reqs[r].pc = "find"
    /\ LET doc == findOne(reqs[r].email) IN
       IF doc = NoAdmin
       THEN reqs' = [reqs EXCEPT ![r] = IdleReq] /\ sent' = ResInvalid
       ELSE IF isLocked(doc, now)
       THEN reqs' = [reqs EXCEPT ![r] = IdleReq] /\ sent' = ResLocked
       ELSE /\ reqs' = [reqs EXCEPT ![r].pc = "compare", ![r].doc = doc]
            /\ sent' = sent
    /\ UNCHANGED <<now, admins, fails, issued, calls, site>>

\* findOne resolves; the lock and active checks; comparePassword is issued
LoginFind(r) ==
    /\ reqs[r].pc = "find"
    /\ LET doc == findOne(reqs[r].email) IN
       IF doc = NoAdmin
       THEN reqs' = [reqs EXCEPT ![r] = IdleReq] /\ sent' = ResInvalid
       ELSE IF isLocked(doc, now)
       THEN reqs' = [reqs EXCEPT ![r] = IdleReq] /\ sent' = ResLocked
       ELSE IF ~doc.isActive
       THEN reqs' = [reqs EXCEPT ![r] = IdleReq] /\ sent' = ResInactive
       ELSE /\ reqs' = [reqs EXCEPT ![r].pc = "compare", ![r].doc = doc]
            /\ sent' = sent
    /\ UNCHANGED <<now, admins, fails, issued, calls, site>>

\* comparePassword resolves; incLoginAttempts or resetLoginAttempts builds
\* its update from the loaded document and sends it
LoginCompare(r) ==
    /\ reqs[r].pc = "compare"
    /\ LET rq == reqs[r] IN
       reqs' = [reqs EXCEPT ![r] =
                   IF ~comparePassword(rq.password, rq.doc.password)
                   THEN [rq EXCEPT !.pc = "inc",
                                   !.op = incLoginAttempts(rq.doc, now)]
                   ELSE [rq EXCEPT !.pc = "reset", !.op = resetLoginAttempts]]
    /\ UNCHANGED <<now, admins, sent, fails, issued, calls, site>>

\* the store applies the failure update; 401 is sent
LoginIncApply(r) ==
    /\ reqs[r].pc = "inc"
    /\ admins' = storeUpdate(reqs[r].doc._id, reqs[r].op)
    /\ reqs' = [reqs EXCEPT ![r] = IdleReq]
    /\ sent' = ResInvalid
    /\ fails' = IF fails <= LockThreshold THEN fails + 1 ELSE fails
    /\ UNCHANGED <<now, issued, calls, site>>

\* the store applies the reset; updateLastLogin sets lastLogin and saves
LoginResetApply(r) ==
    /\ reqs[r].pc = "reset"
    /\ admins' = storeUpdate(reqs[r].doc._id, reqs[r].op)
    /\ reqs' = [reqs EXCEPT ![r].pc = "save", ![r].op = NoUpdate,
                            ![r].doc.lastLogin = now]
    /\ UNCHANGED <<now, sent, fails, issued, calls, site>>

\* save() that also writes the password the pre-save hook hashed again
save_rehash(stored, doc) ==
    [stored EXCEPT !.lastLogin = doc.lastLogin, !.password = Hash(doc.password)]

\* save() of updateLastLogin writes the modified paths of the loaded
\* document, which is lastLogin alone.  The pre-save hash hook calls next()
\* without returning when the password is not modified, so the save goes on
\* within the same turn of the event loop and its update is built before the
\* hook's bcrypt calls resolve: the hook's later assignment to this.password
\* reaches the loaded document only, never the store.
save(stored, doc) == [stored EXCEPT !.lastLogin = doc.lastLogin]

\* the store applies the save; the token is signed and 200 is sent
LoginSaveApply(r) ==
    /\ reqs[r].pc = "save"
    /\ admins' = LET id == reqs[r].doc._id IN
                 IF admins[id] = NoAdmin THEN admins
                 ELSE [admins EXCEPT ![id] = save(@, reqs[r].doc)]
    /\ reqs' = [reqs EXCEPT ![r] = IdleReq]
    /\ sent' = ResSuccess(reqs[r].doc)
    /\ fails' = 0
    /\ issued' = issued \cup {generateAuthToken(reqs[r].doc)}
    /\ UNCHANGED <<now, calls, site>>

\* ------------------------------------------------------ PUT /api/admin/:id
\* a super-admin sets isActive; save() writes the modified path
SetActive(id, isActive) ==
    /\ admins[id] # NoAdmin
    /\ admins[id].isActive # isActive
    /\ admins' = [admins EXCEPT ![id].isActive = isActive]
    /\ UNCHANGED <<now, reqs, sent, fails, issued, calls, site>>

\* ----------------------------------------------------------------- clock
Tick ==
    /\ now < MaxTime
    /\ now' = now + 1
    /\ UNCHANGED <<admins, reqs, sent, fails, issued, calls, site>>

\* no login request is in flight
Quiet == \A r \in Reqs : reqs[r].pc = "idle"

Next ==
    \/ \E r \in Reqs, e \in Emails, p \in Passwords : LoginStart(r, e, p)
    \/ \E r \in Reqs : LoginFind(r)
    \/ \E r \in Reqs : LoginCompare(r)
    \/ \E r \in Reqs : LoginIncApply(r)
    \/ \E r \in Reqs : LoginResetApply(r)
    \/ \E r \in Reqs : LoginSaveApply(r)
    \/ \E id \in AdminIds, b \in BOOLEAN : SetActive(id, b)
    \/ Tick

\* login requests overlap in any way
Spec == Init /\ [][Next]_vars

\* login requests do not overlap: one starts when none is in flight
SeqNext ==
    \/ \E r \in Reqs, e \in Emails, p \in Passwords :
          Quiet /\ LoginStart(r, e, p)
    \/ \E r \in Reqs : LoginFind(r)
    \/ \E r \in Reqs : LoginCompare(r)
    \/ \E r \in Reqs : LoginIncApply(r)
    \/ \E r \in Reqs : LoginResetApply(r)
    \/ \E r \in Reqs : LoginSaveApply(r)
    \/ \E id \in AdminIds, b \in BOOLEAN : SetActive(id, b)
    \/ Tick

SeqSpec == Init /\ [][SeqNext]_vars

\* ======================================================================
\* Protected routes: middleware/auth.js and the routes behind it
\* ======================================================================
Roles == {"admin", "super-admin"}     \* AdminSchema role enum

\* a bearer token that jwt.verify rejects (not signed with JWT_SECRET)
ForgedToken == [id |-> 1, role |-> "forged"]

\* jwt.verify(token, JWT_SECRET): the tokens signed by generateAuthToken
\* pass.  A token lives 24 hours, longer than the clock of the model runs.
verify(token) == token \in issued

\* what an Authorization header can carry
Bearers == issued \cup {NoToken, ForgedToken}

\* Admin.findById(id)
findById(id) == IF id \in AdminIds THEN admins[id] ELSE NoAdmin

\* a password field that was not selected
NoPassword == [plain |-> "", rounds |-> 0]

\* .select('-password'), and select: false of the schema
Unselect(doc) == [doc EXCEPT !.password = NoPassword]

\* a middleware that calls next()
CallNext == NoRes

ResNoAuth ==
    [status |-> 401, error |-> "Not authorized to access this route",
     token |-> NoToken]
ResBadToken ==
    [status |-> 401, error |-> "Token is not valid", token |-> NoToken]
ResForbidden(role) ==
    [status |-> 403,
     error |-> "User role " \o role \o " is not authorized to access this route",
     token |-> NoToken]
ResOk == [status |-> 200, error |-> "", token |-> NoToken]
ResCreated == [status |-> 201, error |-> "", token |-> NoToken]
ResNotFound ==
    [status |-> 404, error |-> "Admin not found", token |-> NoToken]
ResExists ==
    [status |-> 400, error |-> "Admin with this email already exists",
     token |-> NoToken]
ResSelfDelete ==
    [status |-> 400, error |-> "Cannot delete your own account",
     token |-> NoToken]

\* next(error): the error handler of the application answers
ResServerError == [status |-> 500, error |-> "Server Error", token |-> NoToken]

\* authorize that lets every authenticated account through
authorize_anyRole(roles, admin) ==
    IF admin = NoAdmin THEN ResNoAuth ELSE CallNext

\* authorize(...roles), applied to req.admin
authorize(roles, admin) ==
    IF admin = NoAdmin THEN ResNoAuth
    ELSE IF admin.role \notin roles THEN ResForbidden(admin.role)
    ELSE CallNext

\* the routes declared with authorize('super-admin')
SuperAdminRoutes == {"list", "create", "delete"}

\* the middleware between protect and the handler of a route
guard(route, admin) ==
    IF route \in SuperAdminRoutes THEN authorize({"super-admin"}, admin)
    ELSE CallNext

\* validationResult(req) of a route behind protect
validBody(call) ==
    CASE call.route = "create" ->
            isEmail(call.email) /\ isValidPassword(call.password)
                /\ call.role \in Roles
      [] call.route = "change-password" ->
            isValidPassword(call.current) /\ isValidPassword(call.password)
      [] call.route = "update-profile" ->
            call.email = "" \/ isEmail(call.email)
      [] OTHER -> TRUE

\* an _id that no stored document and no signed token carries
FreshIds ==
    {id \in AdminIds : admins[id] = NoAdmin /\ \A t \in issued : t.id # id}

\* the requests to the routes behind protect
GetCalls ==
    {[IdleCall EXCEPT !.route = rt, !.bearer = b] :
        rt \in {"profile", "list"}, b \in Bearers}
CreateCalls ==
    {[IdleCall EXCEPT !.route = "create", !.bearer = b, !.email = e,
                      !.password = p, !.role = ro] :
        b \in Bearers, e \in Emails, p \in Passwords, ro \in Roles}
DeleteCalls ==
    {[IdleCall EXCEPT !.route = "delete", !.bearer = b, !.target = id] :
        b \in Bearers, id \in AdminIds}

\* no request of these routes is in flight
CallsQuiet == \A c \in Reqs : calls[c].pc = "idle"

\* the frame of a step of a request behind protect
CallFrame == UNCHANGED <<now, reqs, fails, issued, site>>

\* request c is answered with res
Answer(c, res) == calls' = [calls EXCEPT ![c] = IdleCall] /\ sent' = res

\* protect, up to its await: the bearer token is read and verified, and
\* Admin.findById(decoded.id) is issued
CallStart(c, call) ==
    /\ calls[c].pc = "idle"
    /\ IF call.bearer = NoToken
       THEN calls' = calls /\ sent' = ResNoAuth
       ELSE IF ~verify(call.bearer)
       THEN calls' = calls /\ sent' = ResBadToken
       ELSE /\ calls' = [calls EXCEPT ![c] = [call EXCEPT !.pc = "protect"]]
            /\ sent' = sent
    /\ admins' = admins
    /\ CallFrame

\* protect after its await: req.admin is the account of the token, whatever
\* its isActive; then authorize and the validators of the route run, and
\* the handler issues its first query
Protect(c) ==
    /\ calls[c].pc = "protect"
    /\ LET call == calls[c]
           admin == findById(call.bearer.id)
       IN  IF admin = NoAdmin THEN Answer(c, ResBadToken)
           ELSE IF guard(call.route, admin) # CallNext
           THEN Answer(c, guard(call.route, admin))
           ELSE IF ~validBody(call) THEN Answer(c, ResValidation)
           ELSE /\ calls' = [calls EXCEPT ![c].pc = "find",
                                          ![c].admin = Unselect(admin)]
                /\ sent' = sent
    /\ admins' = admins
    /\ CallFrame

\* --------------------------------- GET /api/admin/profile, GET /api/admin
\* Admin.findById(req.admin.id) or Admin.find() resolves; 200
ReadFind(c) ==
    /\ calls[c].pc = "find"
    /\ calls[c].route \in {"profile", "list"}
    /\ Answer(c, ResOk)
    /\ admins' = admins
    /\ CallFrame

\* --------------------------------------------------------- POST /api/admin
\* Admin.findOne({ email }) resolves; Admin.create is issued
CreateFind(c) ==
    /\ calls[c].pc = "find"
    /\ calls[c].route = "create"
    /\ IF findOne(calls[c].email) # NoAdmin THEN Answer(c, ResExists)
       ELSE calls' = [calls EXCEPT ![c].pc = "create"] /\ sent' = sent
    /\ admins' = admins
    /\ CallFrame

\* the store inserts the document (the email index is unique); the welcome
\* email is attempted and its failure is logged only; 201
CreateApply(c) ==
    /\ calls[c].pc = "create"
    /\ LET call == calls[c] IN
       IF findOne(call.email) # NoAdmin
       THEN Answer(c, ResServerError) /\ admins' = admins
       ELSE /\ \E id \in FreshIds :
                  admins' = [admins EXCEPT ![id] =
                      NewAdmin(id, call.email, call.password, call.role)]
            /\ Answer(c, ResCreated)
    /\ CallFrame

\* ---------------------------------------------------- DELETE /api/admin/:id
\* the delete handler without the test for the caller's own account
DeleteFind_noSelfCheck(c) ==
    /\ calls[c].pc = "find"
    /\ calls[c].route = "delete"
    /\ LET doc == findById(calls[c].target) IN
       IF doc = NoAdmin THEN Answer(c, ResNotFound)
       ELSE /\ calls' = [calls EXCEPT ![c].pc = "remove", ![c].doc = doc]
            /\ sent' = sent
    /\ admins' = admins
    /\ CallFrame

\* Admin.findById(req.params.id) resolves; the self-deletion test;
\* admin.remove() is issued
DeleteFind(c) ==
    /\ calls[c].pc = "find"
    /\ calls[c].route = "delete"
    /\ LET doc == findById(calls[c].target) IN
       IF doc = NoAdmin THEN Answer(c, ResNotFound)
       ELSE IF doc._id = calls[c].admin._id THEN Answer(c, ResSelfDelete)
       ELSE /\ calls' = [calls EXCEPT ![c].pc = "remove", ![c].doc = doc]
            /\ sent' = sent
    /\ admins' = admins
    /\ CallFrame

\* the store removes the document; 200
DeleteApply(c) ==
    /\ calls[c].pc = "remove"
    /\ admins' = [admins EXCEPT ![calls[c].doc._id] = NoAdmin]
    /\ Answer(c, ResOk)
    /\ CallFrame

\* the accounts and their routes: logins that carry the password of the
\* account and the requests behind protect, one at a time, at one instant
AuthNext ==
    \/ \E e \in Emails, p \in Passwords :
          /\ Quiet /\ CallsQuiet
          /\ findOne(e) # NoAdmin => comparePassword(p, findOne(e).password)
          /\ LoginStart(1, e, p)
    \/ \E r \in Reqs : LoginFind(r)
    \/ \E r \in Reqs : LoginCompare(r)
    \/ \E r \in Reqs : LoginResetApply(r)
    \/ \E r \in Reqs : LoginSaveApply(r)
    \/ \E id \in AdminIds, b \in BOOLEAN : SetActive(id, b)
    \/ \E call \in GetCalls \cup CreateCalls \cup DeleteCalls :
          /\ Quiet /\ CallsQuiet
          /\ call.route = "create" => FreshIds # {}
          /\ CallStart(1, call)
    \/ \E c \in Reqs : Protect(c)
    \/ \E c \in Reqs : ReadFind(c)
    \/ \E c \in Reqs : CreateFind(c)
    \/ \E c \in Reqs : CreateApply(c)
    \/ \E c \in Reqs : DeleteFind(c)
    \/ \E c \in Reqs : DeleteApply(c)

AuthSpec == Init /\ [][AuthNext]_vars

\* ======================================================================
\* Password reset: POST /forgot-password and PUT /reset-password/:token
\* ======================================================================
\* crypto.randomBytes(32).toString('hex'): the raw reset tokens
Tokens == 1..MaxTokens

\* crypto.createHash('sha256').update(token).digest('hex')
Digest(token) == [sha256 |-> token]

\* whether the mail server takes a message handed to it
Smtp == {"accepts", "refuses"}

\* createTransporter of utils/emailService.js calls
\* nodemailer.createTransporter, which nodemailer does not export (its
\* function is createTransport): the call throws a TypeError
createTransporter == "TypeError"

\* sendPasswordResetEmail(email, resetToken): createTransporter() runs
\* first, outside the try block; then transporter.sendMail
sendPasswordResetEmail(smtp) ==
    IF createTransporter = "TypeError" THEN "throws"
    ELSE IF smtp = "accepts" THEN "sent"
    ELSE "throws"

ResNoSuchEmail ==
    [status |-> 404, error |-> "No admin found with that email",
     token |-> NoToken]
ResMailFailed ==
    [status |-> 500, error |-> "Email could not be sent", token |-> NoToken]
ResBadReset ==
    [status |-> 400, error |-> "Invalid or expired reset token",
     token |-> NoToken]

\* Admin.findOne({ passwordResetToken, passwordResetExpires: { $gt: t } })
findByResetToken(digest, t) ==
    LET match == {id \in AdminIds :
                     /\ admins[id] # NoAdmin
                     /\ admins[id].passwordResetToken = digest
                     /\ admins[id].passwordResetExpires # NoDate
                     /\ admins[id].passwordResetExpires > t}
    IN  IF match = {} THEN NoAdmin
        ELSE admins[CHOOSE id \in match : \A other \in match : id <= other]

\* a save() of the reset fields that also clears the lock, the way
\* resetLoginAttempts does
saveReset_unlock(stored, doc, withPassword) ==
    [stored EXCEPT
        !.passwordResetToken = doc.passwordResetToken,
        !.passwordResetExpires = doc.passwordResetExpires,
        !.password = IF withPassword THEN Hash(doc.password) ELSE @,
        !.loginAttempts = IF withPassword THEN 0 ELSE @,
        !.lockUntil = IF withPassword THEN NoDate ELSE @]

\* save() of a document whose passwordResetToken and passwordResetExpires
\* were assigned, and whose password was assigned when withPassword: the
\* modified paths are written, the password hashed by the pre-save hook
saveReset(stored, doc, withPassword) ==
    [stored EXCEPT
        !.passwordResetToken = doc.passwordResetToken,
        !.passwordResetExpires = doc.passwordResetExpires,
        !.password = IF withPassword THEN Hash(doc.password) ELSE @]

\* the store applies save() to the document of doc, if it is still there
storeSave(doc, withPassword) ==
    IF admins[doc._id] = NoAdmin THEN admins
    ELSE [admins EXCEPT ![doc._id] = saveReset(@, doc, withPassword)]

\* ------------------------------------------------ POST /forgot-password
\* the request arrives; validationResult; Admin.findOne is issued
ForgotStart(c, email, smtp) ==
    /\ calls[c].pc = "idle"
    /\ IF isEmail(email)
       THEN /\ calls' = [calls EXCEPT ![c] =
                  [IdleCall EXCEPT !.pc = "find", !.route = "forgot",
                                   !.email = email, !.smtp = smtp]]
            /\ sent' = sent
       ELSE calls' = calls /\ sent' = ResValidation
    /\ admins' = admins
    /\ CallFrame

\* findOne resolves; the token is drawn, its digest and the expiry are set
\* on the document, and save() is issued
ForgotFind(c, token) ==
    /\ calls[c].pc = "find"
    /\ calls[c].route = "forgot"
    /\ LET doc == findOne(calls[c].email) IN
       IF doc = NoAdmin THEN Answer(c, ResNoSuchEmail)
       ELSE /\ calls' = [calls EXCEPT ![c].pc = "save", ![c].token = token,
                  ![c].doc = [Unselect(doc) EXCEPT
                                 !.passwordResetToken = Digest(token),
                                 !.passwordResetExpires = now + ResetTime]]
            /\ sent' = sent
    /\ admins' = admins
    /\ CallFrame

\* the forgot-password handler answering 500 without the second save
ForgotSave_noRollback(c) ==
    /\ calls[c].pc = "save"
    /\ calls[c].route = "forgot"
    /\ admins' = storeSave(calls[c].doc, FALSE)
    /\ IF sendPasswordResetEmail(calls[c].smtp) = "throws"
       THEN Answer(c, ResMailFailed)
       ELSE Answer(c, ResOk)
    /\ CallFrame

\* the store applies the save; sendPasswordResetEmail is called; when it
\* throws, both fields are cleared on the document and save() is issued
\* again
ForgotSave(c) ==
    /\ calls[c].pc = "save"
    /\ calls[c].route = "forgot"
    /\ admins' = storeSave(calls[c].doc, FALSE)
    /\ IF sendPasswordResetEmail(calls[c].smtp) = "throws"
       THEN /\ calls' = [calls EXCEPT ![c].pc = "rollback",
                  ![c].doc.passwordResetToken = NoDigest,
                  ![c].doc.passwordResetExpires = NoDate]
            /\ sent' = sent
       ELSE Answer(c, ResOk)
    /\ CallFrame

\* the store applies the second save; 500
ForgotRollback(c) ==
    /\ calls[c].pc = "rollback"
    /\ admins' = storeSave(calls[c].doc, FALSE)
    /\ Answer(c, ResMailFailed)
    /\ CallFrame

\* ------------------------------------------- PUT /reset-password/:token
\* the request arrives; validationResult; the digest is taken and
\* Admin.findOne is issued
ResetStart(c, token, password) ==
    /\ calls[c].pc = "idle"
    /\ IF isValidPassword(password)
       THEN /\ calls' = [calls EXCEPT ![c] =
                  [IdleCall EXCEPT !.pc = "find", !.route = "reset",
                                   !.token = token, !.password = password]]
            /\ sent' = sent
       ELSE calls' = calls /\ sent' = ResValidation
    /\ admins' = admins
    /\ CallFrame

\* the reset handler that looks the digest up without the expiry
ResetFind_noExpiry(c) ==
    /\ calls[c].pc = "find"
    /\ calls[c].route = "reset"
    /\ LET doc == findByResetToken(Digest(calls[c].token), NoDate) IN
       IF doc = NoAdmin THEN Answer(c, ResBadReset)
       ELSE /\ calls' = [calls EXCEPT ![c].pc = "save",
                  ![c].doc = [doc EXCEPT
                                 !.password = Plain(calls[c].password),
                                 !.passwordResetToken = NoDigest,
                                 !.passwordResetExpires = NoDate]]
            /\ sent' = sent
    /\ admins' = admins
    /\ CallFrame

\* findOne resolves; the password is set and both fields cleared on the
\* document, and save() is issued
ResetFind(c) ==
    /\ calls[c].pc = "find"
    /\ calls[c].route = "reset"
    /\ LET doc == findByResetToken(Digest(calls[c].token), now) IN
       IF doc = NoAdmin THEN Answer(c, ResBadReset)
       ELSE /\ calls' = [calls EXCEPT ![c].pc = "save",
                  ![c].doc = [doc EXCEPT
                                 !.password = Plain(calls[c].password),
                                 !.passwordResetToken = NoDigest,
                                 !.passwordResetExpires = NoDate]]
            /\ sent' = sent
    /\ admins' = admins
    /\ CallFrame

\* the store applies the save; 200
ResetSave(c) ==
    /\ calls[c].pc = "save"
    /\ calls[c].route = "reset"
    /\ admins' = storeSave(calls[c].doc, TRUE)
    /\ Answer(c, ResOk)
    /\ CallFrame

\* password resets: one requestReset and one completeReset at a time,
\* overlapping each other in any way
ResetNext ==
    \/ \E e \in Emails, m \in Smtp : ForgotStart(1, e, m)
    \/ \E c \in Reqs, t \in Tokens : ForgotFind(c, t)
    \/ \E c \in Reqs : ForgotSave(c)
    \/ \E c \in Reqs : ForgotRollback(c)
    \/ \E t \in Tokens, p \in Passwords : ResetStart(2, t, p)
    \/ \E c \in Reqs : ResetFind(c)
    \/ \E c \in Reqs : ResetSave(c)
    \/ Tick

ResetSpec == Init /\ [][ResetNext]_vars

\* ======================================================================
\* PUT /api/admin/change-password
\* ======================================================================
ResWrongCurrent ==
    [status |-> 400, error |-> "Current password is incorrect",
     token |-> NoToken]

\* the requests to PUT /change-password
ChangeCalls ==
    {[IdleCall EXCEPT !.route = "change-password", !.bearer = b,
                      !.current = cur, !.password = p] :
        b \in Bearers, cur \in Passwords, p \in Passwords}

\* Admin.findById(req.admin.id).select('+password') resolves;
\* comparePassword is issued (on null when the account is gone: TypeError)
ChangeFind(c) ==
    /\ calls[c].pc = "find"
    /\ calls[c].route = "change-password"
    /\ LET doc == findById(calls[c].admin._id) IN
       IF doc = NoAdmin THEN Answer(c, ResServerError)
       ELSE /\ calls' = [calls EXCEPT ![c].pc = "compare", ![c].doc = doc]
            /\ sent' = sent
    /\ admins' = admins
    /\ CallFrame

\* the change-password handler without the test of the current password
ChangeCompare_noCheck(c) ==
    /\ calls[c].pc = "compare"
    /\ calls' = [calls EXCEPT ![c].pc = "save",
                              ![c].doc.password = Plain(calls[c].password)]
    /\ sent' = sent
    /\ admins' = admins
    /\ CallFrame

\* comparePassword resolves; on a match the new password is set on the
\* document and save() is issued
ChangeCompare(c) ==
    /\ calls[c].pc = "compare"
    /\ IF ~comparePassword(calls[c].current, calls[c].doc.password)
       THEN Answer(c, ResWrongCurrent)
       ELSE /\ calls' = [calls EXCEPT ![c].pc = "save",
                            ![c].doc.password = Plain(calls[c].password)]
            /\ sent' = sent
    /\ admins' = admins
    /\ CallFrame

\* save() of a document whose password was assigned: the pre-save hook
\* hashes it and the modified path is written
savePassword(stored, doc) == [stored EXCEPT !.password = Hash(doc.password)]

\* the store applies the save; 200
ChangeSave(c) ==
    /\ calls[c].pc = "save"
    /\ calls[c].route = "change-password"
    /\ admins' = LET id == calls[c].doc._id IN
                 IF admins[id] = NoAdmin THEN admins
                 ELSE [admins EXCEPT ![id] = savePassword(@, calls[c].doc)]
    /\ Answer(c, ResOk)
    /\ CallFrame

\* logins and password changes, one request at a time
PwNext ==
    \/ \E e \in Emails, p \in Passwords :
          Quiet /\ CallsQuiet /\ LoginStart(1, e, p)
    \/ \E r \in Reqs : LoginFind(r)
    \/ \E r \in Reqs : LoginCompare(r)
    \/ \E r \in Reqs : LoginIncApply(r)
    \/ \E r \in Reqs : LoginResetApply(r)
    \/ \E r \in Reqs : LoginSaveApply(r)
    \/ \E call \in ChangeCalls : Quiet /\ CallsQuiet /\ CallStart(1, call)
    \/ \E c \in Reqs : Protect(c)
    \/ \E c \in Reqs : ChangeFind(c)
    \/ \E c \in Reqs : ChangeCompare(c)
    \/ \E c \in Reqs : ChangeSave(c)
    \/ Tick

PwSpec == Init /\ [][PwNext]_vars

\* every handler of the admin credentials, one request at a time.  With no
\* two requests overlapping, a requestReset has cleared its token when it
\* ends, so a completeReset never finds one and never comes to its save.
SerialNext ==
    \/ PwNext
    \/ \E e \in Emails, m \in Smtp :
          Quiet /\ CallsQuiet /\ ForgotStart(1, e, m)
    \/ \E c \in Reqs, t \in Tokens : ForgotFind(c, t)
    \/ \E c \in Reqs : ForgotSave(c)
    \/ \E c \in Reqs : ForgotRollback(c)
    \/ \E t \in Tokens, p \in Passwords :
          Quiet /\ CallsQuiet /\ ResetStart(1, t, p)
    \/ \E c \in Reqs : ResetFind(c)

SerialSpec == Init /\ [][SerialNext]_vars

\* ======================================================================
\* PUT /api/admin/profile
\* ======================================================================
\* the requests to PUT /profile: email is optional ("" when left out)
ProfileCalls ==
    {[IdleCall EXCEPT !.route = "update-profile", !.bearer = b, !.email = e] :
        b \in Bearers, e \in Emails \cup {""}}

\* Admin.findById(req.admin.id) resolves, without the password; the fields
\* of the body are set on the document and save() is issued (on null when
\* the account is gone: TypeError)
ProfileFind(c) ==
    /\ calls[c].pc = "find"
    /\ calls[c].route = "update-profile"
    /\ LET doc == findById(calls[c].admin._id) IN
       IF doc = NoAdmin THEN Answer(c, ResServerError)
       ELSE /\ calls' = [calls EXCEPT ![c].pc = "save",
                  ![c].doc = [Unselect(doc) EXCEPT
                      !.email = IF calls[c].email # "" THEN calls[c].email
                                ELSE @]]
            /\ sent' = sent
    /\ admins' = admins
    /\ CallFrame

\* save() of a document whose email was assigned: the modified path is
\* written.  The password was not loaded and is not modified: the pre-save
\* hook calls next(), the save goes on, and the hook's bcrypt.hash of the
\* missing password rejects after next() was taken.
saveProfile(stored, doc) == [stored EXCEPT !.email = doc.email]

\* the store applies the save, or rejects it when another account holds
\* the email (unique index): next(error)
ProfileSave(c) ==
    /\ calls[c].pc = "save"
    /\ calls[c].route = "update-profile"
    /\ LET id == calls[c].doc._id IN
       IF admins[id] = NoAdmin THEN admins' = admins /\ Answer(c, ResOk)
       ELSE IF \E other \in AdminIds \ {id} :
                  admins[other] # NoAdmin
                      /\ admins[other].email = calls[c].doc.email
       THEN admins' = admins /\ Answer(c, ResServerError)
       ELSE /\ admins' = [admins EXCEPT ![id] = saveProfile(@, calls[c].doc)]
            /\ Answer(c, ResOk)
    /\ CallFrame

\* every save() of an admin document, one request at a time but for a
\* completeReset beside a requestReset: logins that carry the password of
\* the account (updateLastLogin), change-password, the profile update,
\* requestReset with its rollback, and completeReset
SaveNext ==
    \/ \E e \in Emails, p \in Passwords :
          /\ Quiet /\ CallsQuiet
          /\ findOne(e) # NoAdmin => comparePassword(p, findOne(e).password)
          /\ LoginStart(1, e, p)
    \/ \E r \in Reqs : LoginFind(r)
    \/ \E r \in Reqs : LoginCompare(r)
    \/ \E r \in Reqs : LoginResetApply(r)
    \/ \E r \in Reqs : LoginSaveApply(r)
    \/ \E call \in ChangeCalls \cup ProfileCalls :
          Quiet /\ CallsQuiet /\ CallStart(1, call)
    \/ \E c \in Reqs : Protect(c)
    \/ \E c \in Reqs : ChangeFind(c)
    \/ \E c \in Reqs : ChangeCompare(c)
    \/ \E c \in Reqs : ChangeSave(c)
    \/ \E c \in Reqs : ProfileFind(c)
    \/ \E c \in Reqs : ProfileSave(c)
    \/ \E e \in Emails, m \in Smtp :
          Quiet /\ CallsQuiet /\ ForgotStart(1, e, m)
    \/ \E c \in Reqs, t \in Tokens : ForgotFind(c, t)
    \/ \E c \in Reqs : ForgotSave(c)
    \/ \E c \in Reqs : ForgotRollback(c)
    \/ \E t \in Tokens, p \in Passwords :
          /\ Quiet /\ calls[1].route = "forgot"
          /\ ResetStart(2, t, p)
    \/ \E c \in Reqs : ResetFind(c)
    \/ \E c \in Reqs : ResetSave(c)
    \/ Tick

SaveSpec == Init /\ [][SaveNext]_vars


\* ------------------------------------------------- a failing store update
\* incLoginAttempts rejects (the store does not apply the update): the
\* await in the login handler throws, the 401 below it is skipped, and the
\* catch block hands the error to next(error)
LoginIncFail(r) ==
    /\ reqs[r].pc = "inc"
    /\ reqs' = [reqs EXCEPT ![r] = IdleReq]
    /\ sent' = ResServerError
    /\ UNCHANGED <<now, admins, fails, issued, calls, site>>

\* logins one at a time, with a store that can fail the counter update
FaultNext ==
    \/ SeqNext
    \/ \E r \in Reqs : LoginIncFail(r)

FaultSpec == Init /\ [][FaultNext]_vars

\* ======================================================================
\* server.js: startServer
\* ======================================================================
\* the process before its first start, with an empty admins collection
ServerDown == [uri |-> NoUri, db |-> "none", listening |-> FALSE]

\* process.env.MONGODB_URI &&
\* process.env.MONGODB_URI !== 'mongodb://localhost:27017/portfolio'
connects(uri) == uri # NoUri /\ uri # DocumentedUri

\* the accounts that carry process.env.ADMIN_EMAIL
DefaultAdmins ==
    {id \in AdminIds : admins[id] # NoAdmin /\ admins[id].email = AdminEmail}

\* Admin.createDefaultAdmin(): findOne({ email: ADMIN_EMAIL }) and, when
\* there is none, Admin.create with role 'super-admin'
createDefaultAdmin ==
    IF findOne(AdminEmail) # NoAdmin \/ FreshIds = {} THEN admins
    ELSE LET id == CHOOSE i \in FreshIds : \A j \in FreshIds : i <= j
         IN  [admins EXCEPT
                 ![id] = NewAdmin(id, AdminEmail, AdminPassword, "super-admin")]

\* node server.js with MONGODB_URI = uri: the modules are loaded (the sample
\* arrays are built), startServer connects and creates the default admin,
\* or does neither, and app.listen is called
StartServer(uri) ==
    /\ ~server.listening
    /\ IF connects(uri)
       THEN /\ server' = [uri |-> uri, db |-> "connected", listening |-> TRUE]
            /\ admins' = createDefaultAdmin
       ELSE /\ server' = [uri |-> uri, db |-> "none", listening |-> TRUE]
            /\ admins' = admins
    /\ achievements' = SampleAchievements
    /\ skills' = SampleSkills
    /\ UNCHANGED <<now, reqs, sent, fails, issued, calls, contacts, handled>>

\* SIGTERM or SIGINT: process.exit(0); the requests in flight are dropped
StopServer ==
    /\ server.listening
    /\ server' = [server EXCEPT !.db = "none", !.listening = FALSE]
    /\ reqs' = [r \in Reqs |-> IdleReq]
    /\ calls' = [c \in Slots |-> IdleCall]
    /\ UNCHANGED <<now, admins, sent, fails, issued, contacts, achievements,
                   skills, handled>>

\* before the first start: no account is stored
BootInit ==
    /\ now = 0
    /\ admins = [id \in AdminIds |-> NoAdmin]
    /\ reqs = [r \in Reqs |-> IdleReq]
    /\ sent = NoRes
    /\ fails = 0
    /\ issued = {}
    /\ calls = [c \in Slots |-> IdleCall]
    /\ server = ServerDown
    /\ contacts = [id \in ContactIds |-> NoContact]
    /\ achievements = SampleAchievements
    /\ skills = SampleSkills
    /\ handled = NoHandler

\* starts and stops of the server, and between them the logins that a
\* connected server answers, one at a time
BootNext ==
    \/ \E uri \in Uris : StartServer(uri)
    \/ StopServer
    \/ \E e \in Emails, p \in Passwords :
          /\ Quiet
          /\ server.listening /\ server.db = "connected"
          /\ LoginStart(1, e, p)
    \/ \E r \in Reqs : LoginFind(r)
    \/ \E r \in Reqs : LoginCompare(r)
    \/ \E r \in Reqs : LoginIncApply(r)
    \/ \E r \in Reqs : LoginResetApply(r)
    \/ \E r \in Reqs : LoginSaveApply(r)
    \/ Tick

BootSpec == BootInit /\ [][BootNext]_vars

\* ======================================================================
\* The routers of the site: declaration order and first-match dispatch
\* ======================================================================
\* A path is the sequence of its segments below the mount point of the
\* router; a route is named by the line of its declaration.
Route(method, path, line) == [method |-> method, path |-> path, line |-> line]

\* the segments that are route parameters
Params == {":id", ":category", ":categoryId", ":skillName"}

\* routes/achievements.js, in the order of the router.METHOD calls
AchievementRoutes ==
    << Route("GET", <<>>, 44),
       Route("GET", <<"featured">>, 81),
       Route("GET", <<":id">>, 99),
       Route("POST", <<>>, 123),
       Route("PUT", <<":id">>, 211),
       Route("DELETE", <<":id">>, 311),
       Route("PUT", <<":id", "toggle-featured">>, 338),
       Route("GET", <<"category", ":category">>, 365),
       Route("GET", <<"stats">>, 384) >>

\* routes/skills.js
SkillRoutes ==
    << Route("GET", <<>>, 52),
       Route("GET", <<"category", ":category">>, 66),
       Route("POST", <<"category">>, 92),
       Route("POST", <<"category", ":categoryId">>, 143),
       Route("PUT", <<"category", ":categoryId", "skill", ":skillName">>, 206),
       Route("DELETE", <<"category", ":categoryId", "skill", ":skillName">>,
             267),
       Route("DELETE", <<"category", ":categoryId">>, 307),
       Route("GET", <<"stats">>, 335) >>

\* routes/contact.js
ContactRoutes ==
    << Route("POST", <<>>, 12),
       Route("GET", <<>>, 92),
       Route("GET", <<"stats">>, 143),
       Route("GET", <<":id">>, 159),
       Route("PUT", <<":id", "status">>, 187),
       Route("DELETE", <<":id">>, 227),
       Route("PUT", <<"bulk", "status">>, 252) >>

\* routes/projects.js
ProjectRoutes ==
    << Route("GET", <<>>, 12),
       Route("GET", <<"featured">>, 67),
       Route("GET", <<"category", ":category">>, 83),
       Route("GET", <<":id">>, 100),
       Route("POST", <<>>, 126),
       Route("PUT", <<":id">>, 222),
       Route("DELETE", <<":id">>, 311),
       Route("PUT", <<":id", "toggle-featured">>, 342),
       Route("POST", <<":id", "like">>, 368),
       Route("GET", <<"stats">>, 394) >>

\* the routers mounted by server.js
Routers ==
    [achievements |-> AchievementRoutes, skills |-> SkillRoutes,
     contact |-> ContactRoutes, projects |-> ProjectRoutes]

\* a route pattern matches a path: the same number of segments, and every
\* segment is a parameter or equal to the segment of the path
matches(pattern, path) ==
    /\ Len(pattern) = Len(path)
    /\ \A i \in 1..Len(pattern) : pattern[i] \in Params \/ pattern[i] = path[i]

\* the router runs the first declared route of the method that matches the
\* path; 0 when none does (the 404 handler of server.js)
dispatch(routes, method, path) ==
    LET hits == {i \in 1..Len(routes) :
                    routes[i].method = method /\ matches(routes[i].path, path)}
    IN  IF hits = {} THEN 0
        ELSE routes[CHOOSE i \in hits : \A j \in hits : i <= j].line

\* Number.parseInt of a path segment; NaN is equal to no id
NaN == 0
parseInt(segment) ==
    IF \E n \in 1..MaxItems : ToString(n) = segment
    THEN CHOOSE n \in 1..MaxItems : ToString(n) = segment
    ELSE NaN

\* the path segments a request carries in the place of an id
IdSegments == {ToString(n) : n \in 1..MaxItems}

\* protect, then authorize('admin', 'super-admin'), of a site route: the
\* status they answer, 0 when they call next()
siteGuard(bearer) ==
    IF bearer = NoToken \/ ~verify(bearer) \/ findById(bearer.id) = NoAdmin
    THEN 401
    ELSE authorize(Roles, findById(bearer.id)).status

\* the site request is answered: its route and the status of the answer
Handled(router, method, path, status) ==
    handled' = [router |-> router, method |-> method, path |-> path,
                line |-> dispatch(Routers[router], method, path),
                status |-> status]


\* ======================================================================
\* routes/achievements.js and routes/skills.js: the in-memory arrays
\* ======================================================================
\* String.prototype.toLowerCase, on the titles and categories in play
toLowerCase(s) ==
    CASE s = "College Rank" -> "college rank"
      [] s = "Best Project" -> "best project"
      [] s = "Databases" -> "databases"
      [] s = "Cloud" -> "cloud"
      [] OTHER -> s

\* what a body carries as title ("" when left out) and as category
Titles == {"", "Best Project", "college rank", "ab"}
Categories == {"Cloud", "databases", "ab"}

\* array.findIndex(a => a.id === id), counting from 1; 0 when there is none
findIndex(array, id) ==
    LET hits == {i \in 1..Len(array) : array[i].id = id}
    IN  IF hits = {} THEN 0 ELSE CHOOSE i \in hits : \A j \in hits : i <= j

\* array.splice(index, 1)
splice(array, index) ==
    [i \in 1..Len(array) - 1 |-> IF i < index THEN array[i] ELSE array[i + 1]]

\* a step of a site request leaves the accounts and their requests alone
SiteFrame == UNCHANGED <<now, admins, reqs, sent, fails, issued, calls, server>>

\* GET /api/achievements/...: the list, the featured ones, one by id, those
\* of a category, or the statistics.  (The statistics handler also sorts
\* the array in place by date; the order of the entries plays no part in
\* any handler.)
AchievementsGet(path) ==
    /\ server.listening
    /\ LET line == dispatch(AchievementRoutes, "GET", path) IN
       Handled("achievements", "GET", path,
           CASE line = 0 -> 404
             [] line = 99 ->
                  IF findIndex(achievements, parseInt(path[1])) = 0
                  THEN 404 ELSE 200
             [] OTHER -> 200)
    /\ UNCHANGED <<contacts, achievements, skills>>
    /\ SiteFrame

\* POST /api/achievements: a title that is taken is refused, and the new
\* entry takes id = achievements.length + 1
AchievementsPost(bearer, title) ==
    /\ server.listening
    /\ Len(achievements) < MaxItems
    /\ LET taken == \E i \in 1..Len(achievements) :
                       toLowerCase(achievements[i].title) = toLowerCase(title)
           newAchievement ==
               [id |-> Len(achievements) + 1, title |-> title,
                featured |-> FALSE]
       IN  IF siteGuard(bearer) # 0
           THEN /\ Handled("achievements", "POST", <<>>, siteGuard(bearer))
                /\ achievements' = achievements
           ELSE IF Len(title) < 3 \/ taken
           THEN /\ Handled("achievements", "POST", <<>>, 400)
                /\ achievements' = achievements
           ELSE /\ Handled("achievements", "POST", <<>>, 201)
                /\ achievements' = Append(achievements, newAchievement)
    /\ UNCHANGED <<contacts, skills>>
    /\ SiteFrame

\* PUT /api/achievements/:id sets the title of the first entry with the id;
\* PUT /api/achievements/:id/toggle-featured flips its featured
AchievementsPut(path, bearer, title) ==
    /\ server.listening
    /\ LET line == dispatch(AchievementRoutes, "PUT", path)
           achievementId == parseInt(path[1])
           index == findIndex(achievements, achievementId)
           conflict ==
               /\ title # ""
               /\ toLowerCase(title) # toLowerCase(achievements[index].title)
               /\ \E i \in 1..Len(achievements) :
                     /\ achievements[i].id # achievementId
                     /\ toLowerCase(achievements[i].title) = toLowerCase(title)
           status ==
               IF siteGuard(bearer) # 0 THEN siteGuard(bearer)
               ELSE IF line = 211 /\ title # "" /\ Len(title) < 3 THEN 400
               ELSE IF index = 0 THEN 404
               ELSE IF line = 211 /\ conflict THEN 400
               ELSE 200
       IN  /\ Handled("achievements", "PUT", path, status)
           /\ achievements' =
                 IF status # 200 THEN achievements
                 ELSE IF line = 338
                 THEN [achievements EXCEPT ![index].featured = ~@]
                 ELSE IF title # ""
                 THEN [achievements EXCEPT ![index].title = title]
                 ELSE achievements
    /\ UNCHANGED <<contacts, skills>>
    /\ SiteFrame

\* DELETE /api/achievements/:id: the first entry with the id is spliced out
AchievementsDelete(path, bearer) ==
    /\ server.listening
    /\ LET index == findIndex(achievements, parseInt(path[1]))
           status == IF siteGuard(bearer) # 0 THEN siteGuard(bearer)
                     ELSE IF index = 0 THEN 404 ELSE 200
       IN  /\ Handled("achievements", "DELETE", path, status)
           /\ achievements' = IF status = 200
                              THEN splice(achievements, index)
                              ELSE achievements
    /\ UNCHANGED <<contacts, skills>>
    /\ SiteFrame

\* POST /api/skills/category: a category that exists is refused, and the
\* new one takes id = skills.length + 1
SkillsPost(bearer, category) ==
    /\ server.listening
    /\ Len(skills) < MaxItems
    /\ LET existing == \E i \in 1..Len(skills) :
                          toLowerCase(skills[i].category) = toLowerCase(category)
           newCategory == [id |-> Len(skills) + 1, category |-> category]
       IN  IF siteGuard(bearer) # 0
           THEN /\ Handled("skills", "POST", <<"category">>, siteGuard(bearer))
                /\ skills' = skills
           ELSE IF Len(category) < 3 \/ existing
           THEN /\ Handled("skills", "POST", <<"category">>, 400)
                /\ skills' = skills
           ELSE /\ Handled("skills", "POST", <<"category">>, 201)
                /\ skills' = Append(skills, newCategory)
    /\ UNCHANGED <<contacts, achievements>>
    /\ SiteFrame

\* DELETE /api/skills/category/:categoryId
SkillsDelete(path, bearer) ==
    /\ server.listening
    /\ LET index == findIndex(skills, parseInt(path[2]))
           status == IF siteGuard(bearer) # 0 THEN siteGuard(bearer)
                     ELSE IF index = 0 THEN 404 ELSE 200
       IN  /\ Handled("skills", "DELETE", path, status)
           /\ skills' = IF status = 200 THEN splice(skills, index) ELSE skills
    /\ UNCHANGED <<contacts, achievements>>
    /\ SiteFrame


\* ======================================================================
\* routes/contact.js and models/Contact.js
\* ======================================================================
\* An email address of a contact form: the part before the @ and the labels
\* of the domain after it (none when there is no @).
ContactEmails ==
    {[local |-> "visitor", domain |-> <<"example", "com">>],
     [local |-> "visitor", domain |-> <<"example", "info">>],
     [local |-> "visitor", domain |-> <<>>]}

\* body('email').isEmail(): a local part and a domain of two labels or more
\* whose last has two characters or more
isContactEmail(e) ==
    /\ Len(e.local) >= 1
    /\ Len(e.domain) >= 2
    /\ Len(e.domain[Len(e.domain)]) >= 2

\* ContactSchema email match
\* /^\w+([\.-]?\w+)*@\w+([\.-]?\w+)*(\.\w{2,3})+$/: the address ends with a
\* dot and a label of two or three characters
matchEmail(e) ==
    /\ Len(e.local) >= 1
    /\ Len(e.domain) >= 2
    /\ Len(e.domain[Len(e.domain)]) \in {2, 3}

\* the message of a contact form: isLength({ min: 10, max: 1000 })
Messages == {"I would like to work with you", "Hi"}
MinMessageLen == 10

\* what a body carries as status, and the enum of ContactSchema
BodyStatuses == {"read", "archived", "done"}
ContactStatuses == {"unread", "read", "replied", "archived"}

\* sendContactEmail(contactData): createTransporter() runs first; then the
\* two transporter.sendMail calls
sendContactEmail(smtp) ==
    IF createTransporter = "TypeError" THEN "throws"
    ELSE IF smtp = "accepts" THEN "sent"
    ELSE "throws"

\* the inner try block of POST /api/contact: an error of sendContactEmail
\* is logged and the request goes on to its 201
afterEmail(outcome) == 201

\* the _ids that Contact.create can give
FreeContactIds == {id \in ContactIds : contacts[id] = NoContact}

\* POST /api/contact: the validators, Contact.create (which runs the
\* validators of the schema, and hands a ValidationError to next(error)),
\* sendContactEmail inside its own try block, 201
ContactPost(email, message, smtp) ==
    /\ server.listening
    /\ FreeContactIds # {}
    /\ LET id == CHOOSE i \in FreeContactIds : \A j \in FreeContactIds : i <= j
           contact == [_id |-> id, email |-> email, message |-> message,
                       status |-> "unread"]
       IN  IF ~isContactEmail(email) \/ Len(message) < MinMessageLen
           THEN /\ Handled("contact", "POST", <<>>, 400)
                /\ contacts' = contacts
           ELSE IF server.db # "connected" \/ ~matchEmail(email)
           THEN /\ Handled("contact", "POST", <<>>, ResServerError.status)
                /\ contacts' = contacts
           ELSE /\ Handled("contact", "POST", <<>>,
                        afterEmail(sendContactEmail(smtp)))
                /\ contacts' = [contacts EXCEPT ![id] = contact]
    /\ UNCHANGED <<achievements, skills>>
    /\ SiteFrame

\* PUT /api/contact/:id/status sets the status of one contact
\* (Contact.findById throws a CastError on a segment that is no ObjectId);
\* PUT /api/contact/bulk/status sets it on every contact listed in ids
\* (Contact.updateMany)
ContactPut(path, bearer, ids, status) ==
    /\ server.listening
    /\ LET line == dispatch(ContactRoutes, "PUT", path)
           id == parseInt(path[1])
           answer ==
               IF siteGuard(bearer) # 0 THEN siteGuard(bearer)
               ELSE IF status \notin ContactStatuses THEN 400
               ELSE IF line = 252 /\ ids = {} THEN 400
               ELSE IF line = 252 THEN 200
               ELSE IF id = NaN THEN ResServerError.status
               ELSE IF id \notin ContactIds THEN 404
               ELSE IF contacts[id] = NoContact THEN 404
               ELSE 200
       IN  /\ Handled("contact", "PUT", path, answer)
           /\ contacts' =
                 IF answer # 200 THEN contacts
                 ELSE IF line = 252
                 THEN [i \in ContactIds |->
                          IF i \in ids /\ contacts[i] # NoContact
                          THEN [contacts[i] EXCEPT !.status = status]
                          ELSE contacts[i]]
                 ELSE [contacts EXCEPT ![id].status = status]
    /\ UNCHANGED <<achievements, skills>>
    /\ SiteFrame

\* GET /api/projects/...: the list, the featured ones, those of a category,
\* one by id (no project is stored: 404, and a CastError on a segment that
\* is no ObjectId), or the statistics behind protect and authorize
ProjectsGet(path, bearer) ==
    /\ server.listening
    /\ LET line == dispatch(ProjectRoutes, "GET", path) IN
       Handled("projects", "GET", path,
           CASE line = 0 -> 404
             [] line = 100 ->
                  IF parseInt(path[1]) = NaN THEN ResServerError.status
                  ELSE 404
             [] line = 394 ->
                  IF siteGuard(bearer) # 0 THEN siteGuard(bearer) ELSE 200
             [] OTHER -> 200)
    /\ UNCHANGED <<contacts, achievements, skills>>
    /\ SiteFrame

\* the paths of the requests to the routers: the reads, one entry by id,
\* its featured flag, one skill category by id, and the status of contacts
Paths ==
    [get |-> {<<>>, <<"featured">>, <<"stats">>, <<"category", "academic">>}
                 \cup {<<s>> : s \in IdSegments},
     item |-> {<<s>> : s \in IdSegments},
     toggle |-> {<<s, "toggle-featured">> : s \in IdSegments},
     category |-> {<<"category", s>> : s \in IdSegments},
     status |-> {<<"bulk", "status">>}
                    \cup {<<ToString(id), "status">> : id \in ContactIds}]

\* a login that carries the password of the account, when no request is
\* in flight: the way to a bearer token
OwnLogin ==
    \E e \in Emails, p \in Passwords :
        /\ Quiet
        /\ findOne(e) # NoAdmin /\ comparePassword(p, findOne(e).password)
        /\ LoginStart(1, e, p)

\* the achievements array: logins, and the requests that change it, one at
\* a time
MemNext ==
    \/ OwnLogin
    \/ \E r \in Reqs : LoginFind(r)
    \/ \E r \in Reqs : LoginCompare(r)
    \/ \E r \in Reqs : LoginResetApply(r)
    \/ \E r \in Reqs : LoginSaveApply(r)
    \/ \E b \in Bearers, t \in Titles : Quiet /\ AchievementsPost(b, t)
    \/ \E path \in Paths.item \cup Paths.toggle, b \in Bearers, t \in Titles :
          Quiet /\ AchievementsPut(path, b, t)
    \/ \E path \in Paths.item, b \in Bearers : Quiet /\ AchievementsDelete(path, b)

MemSpec == Init /\ [][MemNext]_vars

\* the skills array: logins, and the requests that change it, one at a time
SkillNext ==
    \/ OwnLogin
    \/ \E r \in Reqs : LoginFind(r)
    \/ \E r \in Reqs : LoginCompare(r)
    \/ \E r \in Reqs : LoginResetApply(r)
    \/ \E r \in Reqs : LoginSaveApply(r)
    \/ \E b \in Bearers, c \in Categories : Quiet /\ SkillsPost(b, c)
    \/ \E path \in Paths.category, b \in Bearers : Quiet /\ SkillsDelete(path, b)

SkillSpec == Init /\ [][SkillNext]_vars

\* the routers over the database: logins, and the requests to the contact
\* and projects routers and the reads of the achievements router, one at a
\* time
SiteNext ==
    \/ OwnLogin
    \/ \E r \in Reqs : LoginFind(r)
    \/ \E r \in Reqs : LoginCompare(r)
    \/ \E r \in Reqs : LoginResetApply(r)
    \/ \E r \in Reqs : LoginSaveApply(r)
    \/ \E path \in Paths.get : Quiet /\ AchievementsGet(path)
    \/ \E e \in ContactEmails, m \in Messages, smtp \in Smtp :
          Quiet /\ ContactPost(e, m, smtp)
    \/ \E path \in Paths.status, b \in Bearers, ids \in SUBSET ContactIds,
          st \in BodyStatuses :
          Quiet /\ ContactPut(path, b, ids, st)
    \/ \E path \in Paths.get, b \in Bearers : Quiet /\ ProjectsGet(path, b)

SiteSpec == Init /\ [][SiteNext]_vars


\* ======================================================================
\* Requests that overlap: two completeReset beside a requestReset, and two
\* DELETE /api/admin/:id
\* ======================================================================
\* password resets at one instant: a requestReset, and beside it two
\* completeReset requests that overlap each other in any way
RaceNext ==
    \/ \E e \in Emails, m \in Smtp : ForgotStart(1, e, m)
    \/ \E c \in Slots, t \in Tokens : ForgotFind(c, t)
    \/ \E c \in Slots : ForgotSave(c)
    \/ \E c \in Slots : ForgotRollback(c)
    \/ \E c \in Slots \ {1}, t \in Tokens, p \in Passwords : ResetStart(c, t, p)
    \/ \E c \in Slots : ResetFind(c)
    \/ \E c \in Slots : ResetSave(c)

RaceSpec == Init /\ [][RaceNext]_vars


\* the accounts and their routes as in AuthNext, and beside a DELETE in
\* flight a second DELETE that overlaps it in any way
DeleteNext ==
    \/ AuthNext
    \/ \E call \in DeleteCalls :
          /\ Quiet
          /\ calls[1].route = "delete"
          /\ CallStart(2, call)

DeleteSpec == Init /\ [][DeleteNext]_vars


\* the lock and the password: logins one at a time, which lock the account
\* after LockThreshold wrong passwords and may arrive while a requestReset
\* waits to clear its token, PUT /:id setting isActive, change-password, and a
\* completeReset beside a requestReset, which draws the first token and
\* whose email is refused
LockNext ==
    \/ \E e \in Emails, p \in Passwords :
          /\ Quiet
          /\ calls[2].pc = "idle"
          /\ calls[1].pc = "idle" \/ calls[1].pc = "rollback"
          /\ LoginStart(1, e, p)
    \/ \E r \in Reqs : LoginFind(r)
    \/ \E r \in Reqs : LoginCompare(r)
    \/ \E r \in Reqs : LoginIncApply(r)
    \/ \E r \in Reqs : LoginResetApply(r)
    \/ \E r \in Reqs : LoginSaveApply(r)
    \/ \E id \in AdminIds, b \in BOOLEAN :
          Quiet /\ CallsQuiet /\ SetActive(id, b)
    \/ \E call \in ChangeCalls : Quiet /\ CallsQuiet /\ CallStart(1, call)
    \/ \E c \in Reqs : Protect(c)
    \/ \E c \in Reqs : ChangeFind(c)
    \/ \E c \in Reqs : ChangeCompare(c)
    \/ \E c \in Reqs : ChangeSave(c)
    \/ \E e \in Emails : Quiet /\ CallsQuiet /\ ForgotStart(1, e, "refuses")
    \/ \E c \in Reqs : ForgotFind(c, 1)
    \/ \E c \in Reqs : ForgotSave(c)
    \/ \E c \in Reqs : ForgotRollback(c)
    \/ \E t \in Tokens, p \in Passwords :
          Quiet /\ calls[1].route = "forgot" /\ ResetStart(2, t, p)
    \/ \E c \in Reqs : ResetFind(c)
    \/ \E c \in Reqs : ResetSave(c)
    \/ Quiet /\ CallsQuiet /\ Tick

LockSpec == Init /\ [][LockNext]_vars



\* ======================================================================
\* Properties
\* ======================================================================
\* the stored document of the default admin
Account == findOne(AdminEmail)

\* request r takes the step that leaves position p
Leaves(r, p) == reqs[r].pc = p /\ reqs'[r].pc # p

\* request r is answered in this step
Answered(r) == reqs[r].pc # "idle" /\ reqs'[r].pc = "idle"

\* C1: from a counter of 0, the 5th consecutive wrong-password login (requests
\* not overlapping, no success in between) builds and stores
\* lockUntil = time of that failure + 2 hours with loginAttempts = 5, and
\* every login looked up before that time is answered accountLocked (423),
\* whatever its password.
C1_LockAfterFiveFailures ==
    [][\A r \in Reqs :
        /\ (Leaves(r, "compare") /\ reqs'[r].pc = "inc" /\ fails = 4)
              => reqs'[r].op.setLockUntil = now + LockTime
        /\ (Leaves(r, "inc") /\ fails = 4)
              => /\ Account'.lockUntil = reqs[r].op.setLockUntil
                 /\ Account'.lockUntil # NoDate
                 /\ Account'.loginAttempts = LockThreshold
        /\ (Leaves(r, "find") /\ reqs[r].email = AdminEmail /\ fails = 5
              /\ now < Account.lockUntil)
              => sent' = ResLocked /\ Answered(r)
      ]_vars

\* the 6th login after 5 failures was answered accountLocked
C1_Witness ==
    /\ fails = 5
    /\ sent = ResLocked
    /\ Account.loginAttempts = LockThreshold
    /\ Account.lockUntil > now

\* C2: a wrong password evaluated when the stored lockUntil is in the past
\* builds the update that clears lockUntil and sets loginAttempts to 1, and
\* once applied the stored counter is exactly 1 and lockUntil is not set.
C2_RestartAfterExpiry ==
    [][\A r \in Reqs :
        /\ (Leaves(r, "compare") /\ reqs'[r].pc = "inc"
              /\ Account.lockUntil # NoDate /\ Account.lockUntil < now)
              => /\ reqs'[r].op.setAttempts = 1
                 /\ reqs'[r].op.incAttempts = 0
                 /\ "lockUntil" \in reqs'[r].op.unset
        /\ (Leaves(r, "inc") /\ reqs[r].op.setAttempts = 1)
              => /\ Account'.loginAttempts = 1
                 /\ Account'.lockUntil = NoDate
      ]_vars

\* a 6th failure, after the lock of the first five expired, left the counter
\* at 1 with no lock
C2_Witness ==
    /\ fails = 6
    /\ sent = ResInvalid
    /\ Account.loginAttempts = 1
    /\ Account.lockUntil = NoDate

\* C3: a login that is answered success (requests not overlapping) leaves
\* loginAttempts = 0, lockUntil not set and lastLogin = the time the handler
\* recorded after the password matched.
C3_SuccessResets ==
    [][\A r \in Reqs :
        /\ Leaves(r, "reset") => reqs'[r].doc.lastLogin = now
        /\ Leaves(r, "save")
              => /\ sent'.status = 200
                 /\ Account'.loginAttempts = 0
                 /\ Account'.lockUntil = NoDate
                 /\ Account'.lastLogin = reqs[r].doc.lastLogin
      ]_vars

\* a correct password after 3 failures: the counter is reset
C3_Witness ==
    \E r \in Reqs :
        /\ reqs[r].pc = "save"
        /\ fails = 3
        /\ Account.loginAttempts = 0

\* C4: a login looked up while lockUntil is set and in the future is
\* answered accountLocked whatever its password, and neither its arrival
\* nor its answer changes the stored account.
C4_LockedNoEffect ==
    [][\A r \in Reqs :
        /\ (Leaves(r, "find") /\ reqs[r].email = AdminEmail
              /\ Account.lockUntil # NoDate /\ Account.lockUntil > now)
              => sent' = ResLocked /\ Answered(r) /\ admins' = admins
        /\ Leaves(r, "idle") => admins' = admins
      ]_vars

\* a login was refused as locked and the account is as it was
C4_Witness ==
    /\ Quiet
    /\ sent = ResLocked
    /\ Account.lockUntil > now
    /\ Account.loginAttempts >= LockThreshold

\* C5: once the clock has passed lockUntil, with no step of any sweeper, a
\* login for the active account is not refused as locked: the correct
\* password is answered success and a wrong one invalidCredentials.
C5_LockExpires ==
    [][\A r \in Reqs :
        /\ (Leaves(r, "find") /\ reqs[r].email = AdminEmail
              /\ Account.lockUntil # NoDate /\ now > Account.lockUntil
              /\ Account.isActive)
              => reqs'[r].pc = "compare" /\ sent' = sent
        /\ (Answered(r) /\ reqs[r].pc # "find" /\ reqs[r].doc.lockUntil # NoDate)
              => sent' = IF comparePassword(reqs[r].password, Account.password)
                         THEN ResSuccess(reqs[r].doc) ELSE ResInvalid
      ]_vars

\* a correct password is let in after the lock expired
C5_Witness ==
    \E r \in Reqs :
        /\ reqs[r].pc = "save"
        /\ reqs[r].doc.lockUntil # NoDate
        /\ reqs[r].doc.lockUntil < reqs[r].doc.lastLogin

\* C6: no failed attempt is lost: every wrong-password login that reaches the
\* failure handler raises the stored loginAttempts by exactly one, the first
\* failure after an expired lock counting as 1, so that N such logins in
\* flight together raise it by N.
C6_NoLostFailure ==
    [][\A r \in Reqs :
        Leaves(r, "inc")
           => \/ Account'.loginAttempts = Account.loginAttempts + 1
              \/ /\ Account.lockUntil # NoDate
                 /\ Account.lockUntil <= now
                 /\ Account'.loginAttempts = 1
      ]_vars

\* C7: the increment and the lock are one atomic update: as soon as the
\* stored counter has reached 5 the account has a lockUntil.
C7_LockedAtThreshold ==
    Account.loginAttempts >= LockThreshold => Account.lockUntil # NoDate

\* C8: lockUntil is written only together with a counter of at least 5:
\* whenever the stored lockUntil lies in the future the stored loginAttempts
\* is at least 5.
C8_LockImpliesThreshold ==
    (Account.lockUntil # NoDate /\ Account.lockUntil > now)
        => Account.loginAttempts >= LockThreshold

\* C9: a validated login has one outcome, chosen in this order: no account
\* with the email -> invalidCredentials (401); locked -> accountLocked (423);
\* not active -> accountInactive (401); password mismatch ->
\* invalidCredentials (401); otherwise success (200) with a token for the
\* account's id and role.  Only a success carries a token.
C9_OutcomePrecedence ==
    [][\A r \in Reqs :
        /\ Leaves(r, "find")
              => LET doc == findOne(reqs[r].email) IN
                 IF doc = NoAdmin
                 THEN sent' = ResInvalid /\ Answered(r)
                 ELSE IF doc.lockUntil # NoDate /\ doc.lockUntil > now
                 THEN sent' = ResLocked /\ Answered(r)
                 ELSE IF ~doc.isActive
                 THEN sent' = ResInactive /\ Answered(r)
                 ELSE ~Answered(r) /\ sent' = sent
        /\ (Answered(r) /\ reqs[r].pc # "find")
              => IF reqs[r].doc.password = Hash(Plain(reqs[r].password))
                 THEN /\ sent'.status = 200
                      /\ sent'.token = [id |-> reqs[r].doc._id,
                                        role |-> reqs[r].doc.role]
                 ELSE sent' = ResInvalid
        /\ sent'.token # NoToken => sent'.status = 200
      ]_vars

\* a locked and inactive account reports accountLocked
C9_Witness ==
    /\ sent = ResLocked
    /\ ~Account.isActive
    /\ Account.lockUntil > now

\* request r carries an email that no account has
UnknownEmail(r) == reqs[r].pc = "find" /\ findOne(reqs[r].email) = NoAdmin

\* request r carries the email of an account and a password that is not its
WrongPassword(r) ==
    LET doc == IF reqs[r].pc = "find" THEN findOne(reqs[r].email)
               ELSE reqs[r].doc
    IN  doc # NoAdmin /\ doc.password # Hash(Plain(reqs[r].password))

\* C10 as stated: a login with an unknown email and a login with a known
\* email and a wrong password get the same answer, invalidCredentials (401).
C10_SameAnswerAlways ==
    [][\A r \in Reqs :
        (Answered(r) /\ (UnknownEmail(r) \/ WrongPassword(r)))
           => sent' = ResInvalid
      ]_vars

\* C10 amended: a login with an unknown email and a login with a wrong
\* password for an account that is active and not locked when it is looked
\* up (so that the password is compared) get the same answer,
\* invalidCredentials (401).
C10_SameAnswerUnlocked ==
    [][\A r \in Reqs :
        (Answered(r)
           /\ (UnknownEmail(r) \/ (WrongPassword(r) /\ reqs[r].pc = "inc")))
           => sent' = ResInvalid
      ]_vars

\* an unknown email has just been answered invalidCredentials and a wrong
\* password for the account is about to be
C10_Witness ==
    \E r \in Reqs :
        /\ reqs[r].pc = "inc"
        /\ sent = ResInvalid
        /\ fails = 0

\* ---------------------------------------------------------------- C11
\* the account that the login request r is about to look up
Found(r) == findOne(reqs[r].email)

\* C11: an account whose isActive is false cannot log in.  A login that
\* finds the account inactive is answered at once, without success and
\* without a token, whatever the password, and changes nothing in the
\* store (loginAttempts, lockUntil and lastLogin included); when the account
\* is not locked the answer is accountInactive.  Every login that is
\* answered with a token loaded an active account.
C11_InactiveCannotLogin ==
    [][\A r \in Reqs :
        /\ (Leaves(r, "find") /\ Found(r) # NoAdmin /\ ~Found(r).isActive)
              => /\ Answered(r)
                 /\ sent'.status # 200
                 /\ sent'.token = NoToken
                 /\ admins' = admins
                 /\ issued' = issued
                 /\ ~isLocked(Found(r), now) => sent' = ResInactive
        /\ (Answered(r) /\ sent'.token # NoToken) => reqs[r].doc.isActive
      ]_vars

\* a login for the deactivated, unlocked account was answered
\* accountInactive after earlier failures had been counted
C11_Witness ==
    /\ sent = ResInactive
    /\ ~Account.isActive
    /\ ~isLocked(Account, now)
    /\ Account.loginAttempts > 0
    /\ Quiet

\* ---------------------------------------------------------------- C12
\* request c takes the step that leaves position p
CallLeaves(c, p) == calls[c].pc = p /\ calls'[c].pc # p

\* the stored account of the bearer token of request c
Bearer(c) == findById(calls[c].bearer.id)

\* C12 as stated: once an account's isActive is false, protect refuses
\* (401) every request that bears a token issued to that account.
C12_DeactivatedTokenRefused ==
    [][\A c \in Reqs :
        (CallLeaves(c, "protect") /\ Bearer(c) # NoAdmin
            /\ ~Bearer(c).isActive)
           => (calls'[c].pc = "idle" /\ sent'.status = 401)
      ]_vars

C17_NoSelfDelete ==
    [][\A c \in Reqs :
        /\ (CallLeaves(c, "find") /\ calls[c].route = "delete"
               /\ findById(calls[c].target) # NoAdmin)
              => IF calls[c].target = calls[c].admin._id
                 THEN /\ calls'[c].pc = "idle"
                      /\ sent' = ResSelfDelete
                      /\ admins' = admins
                 ELSE /\ calls'[c].pc = "remove"
                      /\ admins' = admins
        /\ CallLeaves(c, "remove")
              => /\ calls[c].target # calls[c].admin._id
                 /\ admins[calls[c].target] # NoAdmin
                 /\ admins' = [admins EXCEPT ![calls[c].target] = NoAdmin]
                 /\ sent' = ResOk
      ]_vars

\* the second super-admin deleted the first account and was then refused
\* the deletion of its own
C17_Witness ==
    /\ sent = ResSelfDelete
    /\ admins[1] = NoAdmin
    /\ admins[2] # NoAdmin

\* ---------------------------------------------------------------- C19
\* C19 as stated: a wrong-password login whose counter update is sent to
\* the store is answered invalidCredentials (401), whether the store
\* applies the update or fails it.
C19_FailureStill401 ==
    [][\A r \in Reqs : Leaves(r, "inc") => sent' = ResInvalid]_vars

\* ---------------------------------------------------------------- C13
\* the stored document that the request c loaded
Stored(c) == admins[calls[c].doc._id]

\* the same stored document after the step
StoredAfter(c) == admins'[calls[c].doc._id]

\* the stored fields of a document that carry no reset token
NoResetToken(doc) ==
    doc.passwordResetToken = NoDigest /\ doc.passwordResetExpires = NoDate

\* C13 as stated: a requestReset whose email the mail server accepts is
\* answered 200 and leaves the digest of the emailed token stored, for one
\* hour; a completeReset that finds the token then replaces the password by
\* the hash of the new one, clears passwordResetToken and
\* passwordResetExpires and is answered 200; and a completeReset whose
\* token no account stores is answered 400.
C13_ResetOnce ==
    [][\A c \in Reqs :
        /\ (CallLeaves(c, "save") /\ calls[c].route = "forgot"
               /\ calls[c].smtp = "accepts" /\ Stored(c) # NoAdmin)
              => /\ calls'[c].pc = "idle"
                 /\ sent' = ResOk
                 /\ StoredAfter(c).passwordResetToken = Digest(calls[c].token)
                 /\ StoredAfter(c).passwordResetExpires
                        = calls[c].doc.passwordResetExpires
        /\ (CallLeaves(c, "save") /\ calls[c].route = "reset"
               /\ Stored(c) # NoAdmin)
              => /\ sent' = ResOk
                 /\ StoredAfter(c).password = Hash(Plain(calls[c].password))
                 /\ NoResetToken(StoredAfter(c))
        /\ (CallLeaves(c, "find") /\ calls[c].route = "reset"
               /\ \A id \in AdminIds :
                     admins[id] # NoAdmin =>
                        admins[id].passwordResetToken
                            # Digest(calls[c].token))
              => sent' = ResBadReset /\ admins' = admins
      ]_vars

\* ---------------------------------------------------------------- C14
\* the accounts that store the digest of the token of the reset request c
\* with an expiry that has been reached
Expired(c) ==
    {id \in AdminIds :
        /\ admins[id] # NoAdmin
        /\ admins[id].passwordResetToken = Digest(calls[c].token)
        /\ admins[id].passwordResetExpires # NoDate
        /\ now >= admins[id].passwordResetExpires}

\* C14: the expiry stored with a reset token is the time of issue plus one
\* hour, and a completeReset with the raw token of a stored digest is
\* answered 400 and changes no stored field when the current time is not
\* before passwordResetExpires, the instant now = passwordResetExpires
\* included.
C14_ExpiredTokenRejected ==
    [][\A c \in Reqs :
        /\ (CallLeaves(c, "find") /\ calls[c].route = "forgot"
               /\ calls'[c].pc = "save")
              => calls'[c].doc.passwordResetExpires = now + ResetTime
        /\ (CallLeaves(c, "find") /\ calls[c].route = "reset"
               /\ Expired(c) # {})
              => /\ calls'[c].pc = "idle"
                 /\ sent' = ResBadReset
                 /\ admins' = admins
      ]_vars

\* a completeReset with the raw token of the stored digest is looked up at
\* the instant the token expires
C14_Witness ==
    \E c \in Reqs :
        /\ calls[c].route = "reset"
        /\ calls[c].pc = "find"
        /\ Account.passwordResetToken = Digest(calls[c].token)
        /\ Account.passwordResetExpires = now

\* ---------------------------------------------------------------- C15
\* a requestReset has stored its token and not yet cleared it
Pending == \E c \in Reqs : calls[c].pc = "rollback"

\* C15: a requestReset stores the digest of a fresh token; when the email
\* cannot be sent it clears passwordResetToken and passwordResetExpires
\* again before it answers 500, leaving every other stored field as it was;
\* and a completeReset that is looked up while no requestReset is between
\* its two saves finds no token and is answered 400.
C15_RollbackOnMailFailure ==
    [][\A c \in Reqs :
        /\ (CallLeaves(c, "save") /\ calls[c].route = "forgot"
               /\ Stored(c) # NoAdmin)
              => /\ StoredAfter(c).passwordResetToken = Digest(calls[c].token)
                 /\ sendPasswordResetEmail(calls[c].smtp) = "throws"
                       => calls'[c].pc = "rollback" /\ sent' = sent
        /\ (CallLeaves(c, "rollback") /\ Stored(c) # NoAdmin)
              => /\ sent' = ResMailFailed
                 /\ calls'[c].pc = "idle"
                 /\ NoResetToken(StoredAfter(c))
                 /\ StoredAfter(c) = [Stored(c) EXCEPT
                                     !.passwordResetToken = NoDigest,
                                     !.passwordResetExpires = NoDate]
        /\ (CallLeaves(c, "find") /\ calls[c].route = "reset" /\ ~Pending)
              => sent' = ResBadReset /\ admins' = admins
      ]_vars

\* a requestReset was answered 500 after the clock had advanced, and no
\* token is stored
C15_Witness ==
    /\ sent = ResMailFailed
    /\ NoResetToken(Account)
    /\ CallsQuiet
    /\ now > 0

\* ---------------------------------------------------------------- C20
\* C20: change-password with a current password that does not match the
\* stored hash is answered 400 and leaves the store as it was; with one
\* that matches it goes on to save, is answered 200, and stores the hash of
\* the new password and nothing else, so that the new password matches the
\* stored hash and no other password does.  A login is taken to the success
\* path exactly when its password matches the stored hash, hence with the
\* new password and not with the old one.
C20_ChangePassword ==
    [][/\ \A c \in Reqs :
            /\ (CallLeaves(c, "compare") /\ Stored(c) # NoAdmin)
                  => IF comparePassword(calls[c].current, Stored(c).password)
                     THEN calls'[c].pc = "save" /\ admins' = admins
                     ELSE /\ calls'[c].pc = "idle"
                          /\ sent' = ResWrongCurrent
                          /\ admins' = admins
            /\ (CallLeaves(c, "save") /\ calls[c].route = "change-password"
                   /\ Stored(c) # NoAdmin)
                  => /\ sent' = ResOk
                     /\ StoredAfter(c) = [Stored(c) EXCEPT
                           !.password = Hash(Plain(calls[c].password))]
                     /\ \A p \in Passwords :
                           comparePassword(p, StoredAfter(c).password)
                              <=> p = calls[c].password
       /\ \A r \in Reqs :
            Leaves(r, "compare")
               => (reqs'[r].pc = "reset")
                     <=> comparePassword(reqs[r].password, Account.password)
      ]_vars

\* the password has been changed and a login with the new password has
\* been answered with a token
C20_Witness ==
    /\ Account.password = Hash(Plain("wrong456"))
    /\ sent.status = 200
    /\ sent.token # NoToken
    /\ Quiet
    /\ CallsQuiet

\* ---------------------------------------------------------------- C18
\* the password p is shorter than the six characters every route asks for
Short(p) == Len(p) < MinPasswordLen

\* C18: a request that fails validation is answered 400 before anything is
\* written.  No login gets past validation with a malformed email or a
\* short password, no reset-password with a short password, and no
\* change-password with a short current or new password; the step that
\* answers the validation error changes no stored document (loginAttempts,
\* lockUntil, lastLogin, password and reset fields included), counts no
\* failed attempt, signs no token and leaves no request in flight.
C18_ValidationFirst ==
    /\ [](\A r \in Reqs :
            reqs[r].pc # "idle"
               => reqs[r].email # "not-an-email" /\ ~Short(reqs[r].password))
    /\ [](\A c \in Reqs :
            /\ calls[c].route = "reset" => ~Short(calls[c].password)
            /\ calls[c].route = "forgot" => calls[c].email # "not-an-email"
            /\ (calls[c].route = "change-password"
                   /\ calls[c].pc \notin {"idle", "protect"})
                  => ~Short(calls[c].current) /\ ~Short(calls[c].password))
    /\ [][/\ (sent' = ResValidation /\ sent # ResValidation)
                => /\ admins' = admins
                   /\ fails' = fails
                   /\ issued' = issued
                   /\ Quiet' /\ CallsQuiet'
          /\ \A c \in Reqs :
                (CallLeaves(c, "protect") /\ Bearer(c) # NoAdmin
                    /\ calls[c].route = "change-password"
                    /\ (Short(calls[c].current) \/ Short(calls[c].password)))
                   => sent' = ResValidation /\ admins' = admins
         ]_vars

\* a request was answered with the validation error while the account had
\* two failed attempts counted, which are still there
C18_Witness ==
    /\ sent = ResValidation
    /\ fails = 2
    /\ Account.loginAttempts = 2
    /\ Quiet
    /\ CallsQuiet

\* C21: a start with the documented MONGODB_URI connects to the database
\* and leaves the default admin in the collection; and after any number of
\* starts at most one account carries ADMIN_EMAIL, with role super-admin.
C21_StartCreatesDefaultAdmin ==
    /\ [][(~server.listening /\ server'.listening
              /\ server'.uri = DocumentedUri)
            => (server'.db = "connected" /\ DefaultAdmins' # {})]_vars
    /\ [](/\ Cardinality(DefaultAdmins) <= 1
          /\ \A id \in DefaultAdmins : admins[id].role = "super-admin")

\* ---------------------------------------------------------------- C22
\* call c takes its save step on a stored document, with the password
\* assigned (change-password, reset-password)
SavesPassword(c) ==
    /\ CallLeaves(c, "save")
    /\ calls[c].route \in {"change-password", "reset"}
    /\ Stored(c) # NoAdmin

C23_OwnHandler ==
    \A name \in DOMAIN Routers : \A i \in 1..Len(Routers[name]) :
        (/\ handled.router = name
         /\ handled.method = Routers[name][i].method
         /\ handled.path = Routers[name][i].path)
           => handled.line = Routers[name][i].line

\* ---------------------------------------------------------------- C24
\* C24: a contact submission that passes the validators of the route is
\* stored as a new contact with status 'unread' and answered 201, whether
\* sendContactEmail throws or not, and every other stored contact is left
\* as it was; a submission that fails the validators is answered 400 and
\* stores nothing.
C24_StoredWhateverTheEmail ==
    [][\A e \in ContactEmails, m \in Messages, smtp \in Smtp :
          (server.db = "connected" /\ ContactPost(e, m, smtp))
             => IF isContactEmail(e) /\ Len(m) >= MinMessageLen
                THEN /\ handled'.status = 201
                     /\ \E id \in FreeContactIds :
                           contacts' = [contacts EXCEPT ![id] =
                               [_id |-> id, email |-> e, message |-> m,
                                status |-> "unread"]]
                ELSE /\ handled'.status = 400
                     /\ contacts' = contacts
      ]_vars

\* ---------------------------------------------------------------- C25
\* C25: with login requests that do not overlap, every wrong-password login
\* that is evaluated while the account has a stored lockUntil builds the
\* update that clears lockUntil and sets loginAttempts to 1 and sets no new
\* lock, the instant now = lockUntil included; and the stored loginAttempts
\* never exceeds the threshold 5.
C25_RestartWheneverLockStored ==
    /\ [][\A r \in Reqs :
            (Leaves(r, "compare") /\ reqs'[r].pc = "inc"
                /\ reqs[r].email = AdminEmail /\ Account.lockUntil # NoDate)
               => /\ reqs'[r].op.setAttempts = 1
                  /\ reqs'[r].op.incAttempts = 0
                  /\ "lockUntil" \in reqs'[r].op.unset
                  /\ reqs'[r].op.setLockUntil = NoDate
         ]_vars
    /\ [](Account.loginAttempts <= LockThreshold)

\* ---------------------------------------------------------------- C26
\* C26: while the stored lockUntil of the account is in the future, no step
\* of any login request, however the requests interleave, clears or changes
\* it, and no login for the account is answered success.
C26_LockHoldsUntilExpiry ==
    [][(Account.lockUntil # NoDate /\ Account.lockUntil > now)
          => /\ Account'.lockUntil = Account.lockUntil
             /\ \A r \in Reqs :
                   (Answered(r) /\ reqs[r].email = AdminEmail)
                      => sent'.status # 200
      ]_vars

\* ---------------------------------------------------------------- C27
\* C27: of the completeReset requests that carry one reset token at most
\* one succeeds.  When a completeReset is answered success, no other
\* completeReset with the same token has found the account and is on its
\* way to save a password too.
C27_OneResetPerToken ==
    [][\A c \in Slots :
          (CallLeaves(c, "save") /\ calls[c].route = "reset"
              /\ sent' = ResOk)
             => ~ \E other \in Slots \ {c} :
                    /\ calls[other].route = "reset"
                    /\ calls[other].pc = "save"
                    /\ calls[other].token = calls[c].token
      ]_vars

\* ---------------------------------------------------------------- C28
\* C28: DELETE /api/admin/:id never removes the last account.  No step of
\* any request, however the delete requests interleave, takes the admins
\* collection from holding an account to holding none.
C28_NeverEmpty ==
    [][(\E id \in AdminIds : admins[id] # NoAdmin)
          => (\E id \in AdminIds : admins'[id] # NoAdmin)]_vars

\* ---------------------------------------------------------------- C29
\* C29: after any sequence of create and delete requests the ids of the
\* achievements in memory are pairwise distinct, and so are the ids of the
\* skill categories.
C29_DistinctIds ==
    /\ \A i, j \in 1..Len(achievements) :
          i # j => achievements[i].id # achievements[j].id
    /\ \A i, j \in 1..Len(skills) :
          i # j => skills[i].id # skills[j].id


\* the saved document changes no field of the lock, the activation, the
\* role or the login history
KeepsAccount(before, after) ==
    /\ after.loginAttempts = before.loginAttempts
    /\ after.lockUntil = before.lockUntil
    /\ after.isActive = before.isActive
    /\ after.role = before.role
    /\ after.lastLogin = before.lastLogin
    /\ after.email = before.email

\* C30: completeReset and change-password change only the credential and
\* the reset-token fields.  The save of a reset-password or change-password
\* leaves loginAttempts, lockUntil, isActive, role and lastLogin of the
\* account, and every other account, as they were, so a locked account is
\* still locked and an inactive one still inactive after it; and a login
\* that finds the account while the lock holds is answered accountLocked
\* (423), whatever password it carries.
C30_ResetKeepsLock ==
    [][/\ \A c \in Reqs :
            SavesPassword(c)
               => /\ KeepsAccount(Stored(c), StoredAfter(c))
                  /\ isLocked(Stored(c), now) <=> isLocked(StoredAfter(c), now')
                  /\ \A id \in AdminIds \ {calls[c].doc._id} :
                        admins'[id] = admins[id]
       /\ \A r \in Reqs :
            (Leaves(r, "find") /\ findOne(reqs[r].email) # NoAdmin
                /\ isLocked(findOne(reqs[r].email), now))
               => sent' = ResLocked /\ admins' = admins
      ]_vars

\* a requestReset found the account locked, stored its token and waits to
\* clear it; the completeReset beside it has since used the token and
\* stored its password, and the login that came next was answered
\* accountLocked while the lock still holds
C30_Witness ==
    /\ calls[1].route = "forgot"
    /\ calls[1].pc = "rollback"
    /\ isLocked(calls[1].doc, now)
    /\ admins[1].passwordResetToken = NoDigest
    /\ admins[1].password = Hash(Plain("wrong456"))
    /\ admins[1].loginAttempts >= LockThreshold
    /\ isLocked(admins[1], now)
    /\ sent = ResLocked

=============================================================================
